---- MODULE Spec2Model ----
(***************************************************************************)
(* Model of h2o-py/h2o/targetencoder.py: the TargetEncoder client object,  *)
(* its constructor, fit and transform, with the remote "target.encoder.*"  *)
(* evaluation as an external collaborator.                                 *)
(***************************************************************************)
EXTENDS Integers, Sequences, FiniteSets, TLC

\* ------------------------------------------------------------------------
\* Bounds of the model
\* ------------------------------------------------------------------------
MaxX == 2        \* longest categorical column list given to the constructor
MaxFits == 2     \* remote fits that may succeed on one encoder
MaxRows == 5     \* rows of the training frame the backend encodes

\* ------------------------------------------------------------------------
\* Python values: every value is a record of one shape
\* ------------------------------------------------------------------------
PyInt(i) == [t |-> "int", i |-> i, s |-> ""]
PyStr(s) == [t |-> "str", i |-> 0, s |-> s]
PyNone == [t |-> "none", i |-> 0, s |-> ""]
PyList(l) == [t |-> "list", l |-> l]
PyNoneList == [t |-> "none", l |-> <<>>]

Range(f) == {f[k] : k \in DOMAIN f}
SeqsUpTo(S, n) == UNION {[1..k -> S] : k \in 0..n}

\* isinstance(n, int)
IsInt(v) == v.t = "int"

\* frame.names of the frames a caller passes in
Frames == {<<"a", "b">>, <<"b", "a", "c">>}

\* frame.names[i]: Python indexing, negative indices count from the end
InRange(frame, i) == -Len(frame) <= i /\ i < Len(frame)
NameAt(frame, i) == IF i >= 0 THEN frame[i + 1] ELSE frame[Len(frame) + i + 1]

\* ------------------------------------------------------------------------
\* State
\* ------------------------------------------------------------------------
VARIABLES
  teColumns,           \* self._teColumns
  responseColumnName,  \* self._responseColumnName
  foldColumnName,      \* self._foldColumnName
  blending,            \* self._blending
  inflectionPoint,     \* self._inflectionPoint
  smoothing,           \* self._smoothing
  encodingMap,         \* self._encodingMap (set = FALSE: the attribute does not exist)
  nFits,               \* encoding maps the backend has produced so far
  ctor,                \* the arguments the constructor was called with
  firstFit,            \* frame.names of the first fit that returned, <<>> before
  lastOp,              \* the call that produced this state
  call,                \* the arguments of that call
  err,                 \* the exception it raised, "" when it returned
  retMap,              \* the value fit returned
  retExpr,             \* the frame expression transform returned
  fitExpr,             \* the "target.encoder.fit" expression fit evaluated
  mapAccessed,         \* whether the call evaluated self._encodingMap
  dataset,             \* the rows of the training frame held by the backend
  teMap,               \* the per-category statistics the backend has fitted
  encoded,             \* per row, the statistics its encoding is computed from
  phase                \* "raw", "fitted" or "encoded"

config == <<teColumns, responseColumnName, foldColumnName>>
settings == <<blending, inflectionPoint, smoothing>>
observed == <<lastOp, call, err, retMap, retExpr, fitExpr, mapAccessed>>
history == <<ctor, firstFit>>
encoder == <<config, settings, encodingMap, nFits, history, observed>>
backend == <<dataset, teMap, encoded, phase>>
vars == <<encoder, backend>>

NoMap == [set |-> FALSE, id |-> 0, map_keys |-> <<>>, frames |-> <<>>]
NoFitExpr == [op |-> ""]
NoExpr == [op |-> ""]
NoCall == [frame |-> <<>>, holdout_type |-> PyNone, noise |-> -1, seed |-> -1,
           is_train_or_valid |-> FALSE]

\* ------------------------------------------------------------------------
\* Construction: __init__ stores its arguments as given
\* ------------------------------------------------------------------------
TeEntries == {PyInt(0), PyInt(2), PyStr("a")}
XArgs == {PyNoneList} \cup {PyList(l) : l \in SeqsUpTo(TeEntries, MaxX)}
YArgs == {PyNone, PyInt(2), PyInt(-1), PyStr("a")}
FoldArgs == {PyStr(""), PyInt(1), PyStr("b")}
DefaultInflectionPoint == 3
DefaultSmoothing == 1

NoStats == [count |-> 0, target_sum |-> 0]
NoTeMap == [byFold |-> <<>>, global |-> <<>>]

\* the backend's data is left out of the client's runs
BackendIdle ==
  /\ dataset = <<>>
  /\ teMap = NoTeMap
  /\ encoded = <<>>
  /\ phase = "raw"

Init ==
  /\ BackendIdle
  /\ teColumns \in XArgs
  /\ responseColumnName \in YArgs
  /\ foldColumnName \in FoldArgs
  /\ blending = TRUE
  /\ inflectionPoint = DefaultInflectionPoint
  /\ smoothing = DefaultSmoothing
  /\ encodingMap = NoMap
  /\ nFits = 0
  /\ ctor = [x |-> teColumns, y |-> responseColumnName, fold_column |-> foldColumnName]
  /\ firstFit = <<>>
  /\ lastOp = "init"
  /\ call = NoCall
  /\ err = ""
  /\ retMap = NoMap
  /\ retExpr = NoExpr
  /\ fitExpr = NoFitExpr
  /\ mapAccessed = FALSE

\* ------------------------------------------------------------------------
\* The remote backend evaluating "target.encoder.fit"
\* ------------------------------------------------------------------------
\* a column identifier the backend can find in the frame
RemoteResolvable(frame, v) ==
  \/ v.t = "str" /\ v.s \in Range(frame)
  \/ v.t = "int" /\ InRange(frame, v.i)

RemoteName(frame, v) == IF v.t = "str" THEN v.s ELSE NameAt(frame, v.i)

\* the backend fails with "column not found" unless every column is in the frame
RemoteFitAccepts(frame, te, y, fold) ==
  /\ te.t = "list"
  /\ \A k \in DOMAIN te.l : RemoteResolvable(frame, te.l[k])
  /\ RemoteResolvable(frame, y)
  /\ (fold = PyStr("") \/ RemoteResolvable(frame, fold))

\* the string keys of the map returned: one per encoded column, in the
\* backend's own order
RemoteFitKeys(frame, te) ==
  LET cols == {RemoteName(frame, te.l[k]) : k \in DOMAIN te.l}
  IN {ks \in SeqsUpTo(cols, Cardinality(cols)) :
        /\ Len(ks) = Cardinality(cols)
        /\ Range(ks) = cols}

\* the map frame _eager_map_frame() builds from the backend's answer: frame k
\* holds the encodings of key k
EagerMapFrame(id, ks) ==
  [set |-> TRUE, id |-> id, map_keys |-> ks,
   frames |-> [k \in DOMAIN ks |-> [key |-> [name |-> [col |-> ks[k], fit |-> id]]]]]

\* ------------------------------------------------------------------------
\* fit
\* ------------------------------------------------------------------------
\* a plausible variant: every int entry is converted on its own
ResolveTeColumnsEach(frame, te) ==
  IF te.t = "none" THEN [err |-> "TypeError", val |-> te]
  ELSE IF \A k \in DOMAIN te.l : IsInt(te.l[k]) => InRange(frame, te.l[k].i)
  THEN [err |-> "",
        val |-> PyList([k \in DOMAIN te.l |->
                          IF IsInt(te.l[k]) THEN PyStr(NameAt(frame, te.l[k].i))
                          ELSE te.l[k]])]
  ELSE [err |-> "IndexError", val |-> te]

\* line 73: indices become names only when every entry is an int
ResolveTeColumns(frame, te) ==
  IF te.t = "none" THEN [err |-> "TypeError", val |-> te]
  ELSE IF \A k \in DOMAIN te.l : IsInt(te.l[k])
  THEN IF \A k \in DOMAIN te.l : InRange(frame, te.l[k].i)
       THEN [err |-> "",
             val |-> PyList([k \in DOMAIN te.l |-> PyStr(NameAt(frame, te.l[k].i))])]
       ELSE [err |-> "IndexError", val |-> te]
  ELSE [err |-> "", val |-> te]

\* lines 74 and 75: a single identifier becomes a name when it is an int
ResolveColumn(frame, c) ==
  IF IsInt(c)
  THEN IF InRange(frame, c.i)
       THEN [err |-> "", val |-> PyStr(NameAt(frame, c.i))]
       ELSE [err |-> "IndexError", val |-> c]
  ELSE [err |-> "", val |-> c]

FitCall(frame) == [NoCall EXCEPT !.frame = frame]

FitRaises(e) ==
  /\ err' = e
  /\ retMap' = NoMap
  /\ UNCHANGED <<encodingMap, nFits, firstFit>>

\* a plausible slip: the map is returned but kept in a local, not on self
ReturnEncodingMapOnly(m) ==
  /\ retMap' = m
  /\ UNCHANGED encodingMap

\* lines 77-80: the map is stored on the encoder and that same object returned
StoreEncodingMap(m) ==
  /\ encodingMap' = m
  /\ retMap' = encodingMap'

Fit(frame) ==
  LET x == ResolveTeColumns(frame, teColumns)
      y == ResolveColumn(frame, responseColumnName)
      f == ResolveColumn(frame, foldColumnName)
  IN /\ lastOp' = "fit"
     /\ call' = FitCall(frame)
     /\ retExpr' = NoExpr
     /\ mapAccessed' = FALSE
     /\ UNCHANGED <<settings, ctor, backend>>
     /\ IF x.err # ""
        THEN /\ FitRaises(x.err)
             /\ fitExpr' = NoFitExpr
             /\ UNCHANGED config
        ELSE IF y.err # ""
        THEN /\ FitRaises(y.err)
             /\ fitExpr' = NoFitExpr
             /\ teColumns' = x.val
             /\ UNCHANGED <<responseColumnName, foldColumnName>>
        ELSE IF f.err # ""
        THEN /\ FitRaises(f.err)
             /\ fitExpr' = NoFitExpr
             /\ teColumns' = x.val
             /\ responseColumnName' = y.val
             /\ UNCHANGED foldColumnName
        ELSE /\ teColumns' = x.val
             /\ responseColumnName' = y.val
             /\ foldColumnName' = f.val
             /\ fitExpr' = [op |-> "target.encoder.fit", frame |-> frame,
                            teColumns |-> x.val, responseColumnName |-> y.val,
                            foldColumnName |-> f.val]
             /\ \/ FitRaises("H2OResponseError")
                \/ /\ RemoteFitAccepts(frame, x.val, y.val, f.val)
                   /\ nFits < MaxFits
                   /\ \E ks \in RemoteFitKeys(frame, x.val) :
                        StoreEncodingMap(EagerMapFrame(nFits + 1, ks))
                   /\ nFits' = nFits + 1
                   /\ firstFit' = IF nFits = 0 THEN frame ELSE firstFit
                   /\ err' = ""

\* ------------------------------------------------------------------------
\* transform
\* ------------------------------------------------------------------------
Holdouts == {PyStr("kfold"), PyStr("loo"), PyStr("none"), PyStr("bogus"), PyNone}
\* <<is_train_or_valid, noise, seed>> as in the class's sample usage
TransformArgs == {<<TRUE, -1, 1234>>, <<FALSE, 0, -1>>}

\* assert_is_type(var, *literals): the value must be one of the literals
AssertIsType(var, literals) == var \in {PyStr(s) : s \in literals}

\* Python list equality of map_keys['string'] with self._teColumns
KeysEqual(ks, te) ==
  /\ te.t = "list"
  /\ Len(ks) = Len(te.l)
  /\ \A k \in DOMAIN ks : te.l[k] = PyStr(ks[k])

\* line 104
EncodingMapFramesKeys(m) == [k \in DOMAIN m.frames |-> m.frames[k].key.name]

\* a plausible reordering: the encoding map is checked before the argument
TransformErrorMapFirst(holdout_type) ==
  IF ~encodingMap.set
  THEN [err |-> "AttributeError", accessed |-> TRUE]
  ELSE IF ~KeysEqual(encodingMap.map_keys, teColumns)
  THEN [err |-> "AssertionError", accessed |-> TRUE]
  ELSE IF ~AssertIsType(holdout_type, {"kfold", "loo", "none"})
  THEN [err |-> "InvalidArgumentError", accessed |-> TRUE]
  ELSE [err |-> "", accessed |-> TRUE]

\* a plausible slip: the order of the keys is not compared
TransformErrorNoOrderCheck(holdout_type) ==
  IF ~AssertIsType(holdout_type, {"kfold", "loo", "none"})
  THEN [err |-> "InvalidArgumentError", accessed |-> FALSE]
  ELSE IF ~encodingMap.set
  THEN [err |-> "AttributeError", accessed |-> TRUE]
  ELSE [err |-> "", accessed |-> TRUE]

\* lines 99-102: the exception transform raises before it builds anything, and
\* whether self._encodingMap was evaluated on the way
TransformError(holdout_type) ==
  IF ~AssertIsType(holdout_type, {"kfold", "loo", "none"})
  THEN [err |-> "InvalidArgumentError", accessed |-> FALSE]
  ELSE IF ~encodingMap.set
  THEN [err |-> "AttributeError", accessed |-> TRUE]
  ELSE IF ~KeysEqual(encodingMap.map_keys, teColumns)
  THEN [err |-> "AssertionError", accessed |-> TRUE]
  ELSE [err |-> "", accessed |-> TRUE]

\* lines 103-108: the lazy frame over the "target.encoder.transform" expression
TransformExpr(is_train_or_valid, frame, holdout_type, noise, seed) ==
  [op |-> "target.encoder.transform",
   encodingMapKeys |-> encodingMap.map_keys,
   encodingMapFramesKeys |-> EncodingMapFramesKeys(encodingMap),
   frame |-> frame,
   teColumns |-> teColumns,
   holdout_type |-> holdout_type,
   responseColumnName |-> responseColumnName,
   foldColumnName |-> foldColumnName,
   blending |-> blending,
   inflectionPoint |-> inflectionPoint,
   smoothing |-> smoothing,
   noise |-> noise,
   seed |-> seed,
   is_train_or_valid |-> is_train_or_valid]

TransformResult(is_train_or_valid, frame, holdout_type, noise, seed) ==
  LET e == TransformError(holdout_type)
  IN /\ lastOp' = "transform"
     /\ call' = [frame |-> frame, holdout_type |-> holdout_type, noise |-> noise,
                 seed |-> seed, is_train_or_valid |-> is_train_or_valid]
     /\ retMap' = NoMap
     /\ fitExpr' = NoFitExpr
     /\ err' = e.err
     /\ mapAccessed' = e.accessed
     /\ retExpr' = IF e.err # "" THEN NoExpr
                   ELSE TransformExpr(is_train_or_valid, frame, holdout_type, noise, seed)
     /\ UNCHANGED backend

\* a plausible slip: the map is consumed by the transform that used it
TransformConsumesMap(is_train_or_valid, frame, holdout_type, noise, seed) ==
  /\ TransformResult(is_train_or_valid, frame, holdout_type, noise, seed)
  /\ encodingMap' = IF err' = "" THEN NoMap ELSE encodingMap
  /\ UNCHANGED <<config, settings, nFits, history>>

\* lines 82-108: transform assigns nothing on self
Transform(is_train_or_valid, frame, holdout_type, noise, seed) ==
  /\ TransformResult(is_train_or_valid, frame, holdout_type, noise, seed)
  /\ UNCHANGED <<config, settings, encodingMap, nFits, history>>

\* ------------------------------------------------------------------------
\* Specification
\* ------------------------------------------------------------------------
Next ==
  \/ \E frame \in Frames : Fit(frame)
  \/ \E a \in TransformArgs, frame \in Frames, holdout_type \in Holdouts :
       Transform(a[1], frame, holdout_type, a[2], a[3])

Spec == Init /\ [][Next]_vars

\* ------------------------------------------------------------------------
\* The backend's encoding of a training frame, per holdout type
\* ------------------------------------------------------------------------
Cats == {"A", "B"}
FoldIds == {0, 1}
Responses == {0, 1}
Rows == [cat : Cats, fold : FoldIds, y : Responses]
Datasets == UNION {[1..n -> Rows] : n \in 1..MaxRows}

AddRow(st, row) == [count |-> st.count + 1, target_sum |-> st.target_sum + row.y]

\* group the rows by (category, fold), accumulating the row count and the sum
\* of the response per group, and per category over all folds
RECURSIVE FitterAccumulate(_)
FitterAccumulate(rows) ==
  IF rows = <<>>
  THEN [byFold |-> [g \in Cats \X FoldIds |-> NoStats], global |-> [c \in Cats |-> NoStats]]
  ELSE LET m == FitterAccumulate(SubSeq(rows, 1, Len(rows) - 1))
           row == rows[Len(rows)]
       IN [byFold |-> [m.byFold EXCEPT ![<<row.cat, row.fold>>] = AddRow(@, row)],
           global |-> [m.global EXCEPT ![row.cat] = AddRow(@, row)]]

\* a plausible slip: the row's own fold is used instead of being held out
EffectiveStatsInFold(m, row, holdout_type) ==
  LET all == m.global[row.cat]
      own == m.byFold[<<row.cat, row.fold>>]
  IN CASE holdout_type = "none" -> all
       [] holdout_type = "kfold" -> own
       [] holdout_type = "loo" ->
            [count |-> all.count - 1, target_sum |-> all.target_sum - row.y]

\* the effective count and target sum of one row: the aggregate of its
\* category, less its own fold ("kfold") or less the row itself ("loo")
EffectiveStats(m, row, holdout_type) ==
  LET all == m.global[row.cat]
      own == m.byFold[<<row.cat, row.fold>>]
  IN CASE holdout_type = "none" -> all
       [] holdout_type = "kfold" ->
            [count |-> all.count - own.count,
             target_sum |-> all.target_sum - own.target_sum]
       [] holdout_type = "loo" ->
            [count |-> all.count - 1, target_sum |-> all.target_sum - row.y]

\* the encoder as the class's sample usage leaves it when the backend runs
EncoderFitted ==
  /\ teColumns = PyList(<<PyStr("a")>>)
  /\ responseColumnName = PyStr("b")
  /\ foldColumnName = PyStr("c")
  /\ blending = TRUE
  /\ inflectionPoint = DefaultInflectionPoint
  /\ smoothing = DefaultSmoothing
  /\ encodingMap = EagerMapFrame(1, <<"a">>)
  /\ nFits = 1
  /\ ctor = [x |-> teColumns, y |-> responseColumnName, fold_column |-> foldColumnName]
  /\ firstFit = <<"b", "a", "c">>
  /\ lastOp = "fit"
  /\ call = FitCall(firstFit)
  /\ err = ""
  /\ retMap = encodingMap
  /\ retExpr = NoExpr
  /\ fitExpr = [op |-> "target.encoder.fit", frame |-> firstFit,
                teColumns |-> teColumns, responseColumnName |-> responseColumnName,
                foldColumnName |-> foldColumnName]
  /\ mapAccessed = FALSE

InitBackend ==
  /\ EncoderFitted
  /\ dataset \in Datasets
  /\ teMap = NoTeMap
  /\ encoded = <<>>
  /\ phase = "raw"

BackendFit ==
  /\ phase = "raw"
  /\ teMap' = FitterAccumulate(dataset)
  /\ phase' = "fitted"
  /\ UNCHANGED <<dataset, encoded, encoder>>

BackendTransform(holdout_type) ==
  /\ phase = "fitted"
  /\ encoded' = [k \in DOMAIN dataset |->
                   [holdout_type |-> holdout_type,
                    stats |-> EffectiveStats(teMap, dataset[k], holdout_type)]]
  /\ phase' = "encoded"
  /\ UNCHANGED <<dataset, teMap, encoder>>

NextBackend ==
  \/ BackendFit
  \/ \E holdout_type \in {"kfold", "loo", "none"} : BackendTransform(holdout_type)

SpecBackend == InitBackend /\ [][NextBackend]_vars

\* ------------------------------------------------------------------------
\* Properties
\* ------------------------------------------------------------------------
ValidHoldouts == {PyStr("kfold"), PyStr("loo"), PyStr("none")}
AllInts(l) == \A k \in DOMAIN l : l[k].t = "int"
AllInFrame(frame, l) == \A k \in DOMAIN l : InRange(frame, l[k].i)
NamesAt(frame, l) == PyList([k \in DOMAIN l |-> PyStr(NameAt(frame, l[k].i))])
Mixed(l) == (\E k \in DOMAIN l : l[k].t = "int") /\ (\E k \in DOMAIN l : l[k].t = "str")

\* C1: a transform whose holdout_type is not "kfold", "loo" or "none" (None
\* included) raises, returns no frame, and has neither evaluated the encoding
\* map nor built an expression, whether the encoder is fitted or not.
C1_InvalidHoldoutRejectedFirst ==
  (lastOp = "transform" /\ call.holdout_type \notin ValidHoldouts) =>
    /\ err # ""
    /\ retExpr.op = ""
    /\ ~mapAccessed

C1_Witness ==
  /\ lastOp = "transform"
  /\ call.holdout_type = PyNone
  /\ encodingMap.set
  /\ err # ""

\* C2: on an encoder on which no fit has succeeded, a transform with a valid
\* holdout_type raises an error that names the encoder as unfitted and
\* returns no frame.
C2_UnfittedTransformSaysUnfitted ==
  (lastOp = "transform" /\ nFits = 0 /\ call.holdout_type \in ValidHoldouts) =>
    /\ err = "UnfittedEncoderError"
    /\ retExpr.op = ""

\* C3: a fit that raises leaves the categorical columns, the response column,
\* the fold column and the stored encoding map as they were before the call.
C3_FitFailsAtomically ==
  [][(lastOp' = "fit" /\ err' # "") => UNCHANGED <<config, encodingMap>>]_vars

\* C4: once a fit has succeeded, a transform call, returning or raising, leaves
\* the encoding map, the three column identifiers and the blending,
\* inflection_point and smoothing settings unchanged.
C4_TransformReadOnly ==
  [][(encodingMap.set /\ lastOp' = "transform") =>
       UNCHANGED <<encodingMap, config, settings>>]_vars

C4_Witness ==
  /\ lastOp = "transform"
  /\ err = ""
  /\ call.holdout_type = PyStr("kfold")
  /\ encodingMap.set

\* C5: whenever the encoder holds an encoding map its categorical column list
\* is non-empty and contains neither the response nor the fold column.
C5_FittedColumnsValid ==
  encodingMap.set =>
    /\ teColumns.t = "list"
    /\ Len(teColumns.l) > 0
    /\ \A k \in DOMAIN teColumns.l :
         teColumns.l[k] # responseColumnName /\ teColumns.l[k] # foldColumnName

\* C7: fit turns the categorical list into names exactly when every entry is
\* an int; a list with any non-int entry is kept as given, raises nothing and
\* goes to the remote fit as it is. The response and the fold column are
\* each turned into a name whenever that one identifier is an int.
C7_AllOrNothingResolution ==
  [][(lastOp' = "fit" /\ teColumns.t = "list") =>
       LET frame == call'.frame
           l == teColumns.l
           teOk == AllInts(l) => AllInFrame(frame, l)
           yOk == IsInt(responseColumnName) => InRange(frame, responseColumnName.i)
           fOk == IsInt(foldColumnName) => InRange(frame, foldColumnName.i)
       IN /\ (AllInts(l) /\ teOk) => teColumns' = NamesAt(frame, l)
          /\ ~AllInts(l) => teColumns' = teColumns
          /\ (~AllInts(l) /\ yOk /\ fOk) =>
               /\ err' \notin {"TypeError", "IndexError"}
               /\ fitExpr'.op = "target.encoder.fit"
               /\ fitExpr'.teColumns = teColumns
          /\ teOk =>
               responseColumnName' =
                 IF IsInt(responseColumnName) /\ yOk
                 THEN PyStr(NameAt(frame, responseColumnName.i))
                 ELSE responseColumnName
          /\ (teOk /\ yOk) =>
               foldColumnName' =
                 IF IsInt(foldColumnName) /\ fOk
                 THEN PyStr(NameAt(frame, foldColumnName.i))
                 ELSE foldColumnName]_vars

C7_Witness ==
  /\ lastOp = "fit"
  /\ Mixed(ctor.x.l)
  /\ IsInt(ctor.y)
  /\ teColumns = ctor.x
  /\ responseColumnName.t = "str"
  /\ fitExpr.op = "target.encoder.fit"
  /\ fitExpr.teColumns = ctor.x

\* C8: once a fit has succeeded on an encoder constructed with integer
\* indices, the categorical, response and fold columns are the names found at
\* those indices in the frame of that first successful fit.
CtorAllInts ==
  /\ ctor.x.t = "list"
  /\ Len(ctor.x.l) > 0
  /\ AllInts(ctor.x.l)
  /\ IsInt(ctor.y)
  /\ (IsInt(ctor.fold_column) \/ ctor.fold_column = PyStr(""))

C8_NamesFromFirstFittedFrame ==
  (nFits > 0 /\ CtorAllInts) =>
    /\ teColumns = NamesAt(firstFit, ctor.x.l)
    /\ responseColumnName = PyStr(NameAt(firstFit, ctor.y.i))
    /\ foldColumnName = IF IsInt(ctor.fold_column)
                        THEN PyStr(NameAt(firstFit, ctor.fold_column.i))
                        ELSE ctor.fold_column

\* C9: a transform builds its expression only when the string keys of the
\* stored map equal the categorical column list entry for entry; otherwise it
\* raises and builds nothing. The keys and the frame keys it sends are in
\* that one order: frame key k is the frame of key k.
C9_KeysInColumnOrder ==
  /\ (lastOp = "transform" /\ retExpr.op # "") =>
       /\ teColumns.t = "list"
       /\ Len(teColumns.l) = Len(encodingMap.map_keys)
       /\ \A k \in DOMAIN teColumns.l : teColumns.l[k] = PyStr(encodingMap.map_keys[k])
       /\ retExpr.encodingMapKeys = encodingMap.map_keys
       /\ Len(retExpr.encodingMapFramesKeys) = Len(retExpr.encodingMapKeys)
       /\ \A k \in DOMAIN retExpr.encodingMapKeys :
            /\ retExpr.encodingMapFramesKeys[k].col = retExpr.encodingMapKeys[k]
            /\ retExpr.teColumns.l[k] = PyStr(retExpr.encodingMapKeys[k])
  /\ (lastOp = "transform" /\ err = "") => retExpr.op = "target.encoder.transform"

C9_Witness ==
  /\ lastOp = "transform"
  /\ retExpr.op = "target.encoder.transform"
  /\ Len(retExpr.encodingMapKeys) = 2

\* C10: fit returns the map it stores; the stored map is always the one of the
\* most recent fit that succeeded, also after a later fit has raised; and a
\* transform that returns sends the frames of that map.
C10_LatestFittedMapUsed ==
  /\ (lastOp = "fit" /\ err = "") => retMap.set /\ retMap = encodingMap
  /\ (nFits > 0) => encodingMap.set /\ encodingMap.id = nFits
  /\ (nFits = 0) => ~encodingMap.set
  /\ (lastOp = "transform" /\ err = "") =>
       /\ Len(retExpr.encodingMapFramesKeys) = Len(encodingMap.frames)
       /\ \A k \in DOMAIN retExpr.encodingMapFramesKeys :
            retExpr.encodingMapFramesKeys[k].fit = nFits

C10_Witness ==
  /\ lastOp = "transform"
  /\ err = ""
  /\ nFits = 2
  /\ Len(retExpr.encodingMapFramesKeys) > 0

\* C6: with holdout_type "kfold" every row of the training frame is encoded
\* from the rows of its category whose fold id differs from its own: its
\* effective count is the number of those rows, its target sum the sum of
\* their responses.
OutOfFold(k) ==
  {j \in DOMAIN dataset :
     dataset[j].cat = dataset[k].cat /\ dataset[j].fold # dataset[k].fold}

C6_KFoldUsesOutOfFoldRows ==
  phase = "encoded" =>
    \A k \in DOMAIN encoded :
      encoded[k].holdout_type = "kfold" =>
        /\ encoded[k].stats.count = Cardinality(OutOfFold(k))
        /\ encoded[k].stats.target_sum =
             Cardinality({j \in OutOfFold(k) : dataset[j].y = 1})

\* category "A" with fold 0 count=3 sum=2 and fold 1 count=2 sum=1: a fold-0
\* row sees count=2, sum=1
C6_Witness ==
  /\ phase = "encoded"
  /\ teMap.byFold[<<"A", 0>>] = [count |-> 3, target_sum |-> 2]
  /\ teMap.byFold[<<"A", 1>>] = [count |-> 2, target_sum |-> 1]
  /\ \E k \in DOMAIN encoded :
       /\ dataset[k].cat = "A"
       /\ dataset[k].fold = 0
       /\ encoded[k].holdout_type = "kfold"
       /\ encoded[k].stats = [count |-> 2, target_sum |-> 1]

====
